---- MODULE Spec2Model ----
(***************************************************************************)
(* A model of the HTTP API of src/main.py: the validation schemas          *)
(* (Location, PersonBase, Person, PersonOut, LoginOut), the nine path      *)
(* operations, and the way the framework serves a request: the declared    *)
(* parameters are validated first, the path operation function runs only   *)
(* on a request that passed, and its return value is shaped by the         *)
(* declared response_model.                                                *)
(*                                                                         *)
(* Values.  A JSON / form / query value is a tagged record: JStr(s) with s *)
(* a sequence of one-character strings, JInt(i), JBool(b), Null (JSON null *)
(* and Python None).  A Python dict or a model instance with fixed field   *)
(* names is a function from field names; a dict with a computed key        *)
(* ({name: age}) is a set of <<key, value>> pairs.                         *)
(* A payload value is held in the form its declared type holds it (an age  *)
(* as a JInt, a flag as a JBool); a value of another type that the type    *)
(* cannot take (a word for an age) is a validation error.                  *)
(***************************************************************************)
EXTENDS Integers, Sequences, FiniteSets, TLC

VARIABLES persons, pc, req, resp, ran

vars == <<persons, pc, req, resp, ran>>

(***************************************************************************)
(* Bounds of the model                                                     *)
(***************************************************************************)
\* requests the server may be serving at the same time
NumClients == 2
\* largest path id tried beyond the fixed list (99 is tried as well)
MaxId == 7
\* upload sizes 0..MaxBytes are tried (and the sizes around 1 kb and 2 kb)
MaxBytes == 300
\* how far past a length limit or a numeric limit the inputs go
Over == 1

Clients == 1..NumClients

(***************************************************************************)
(* Values                                                                  *)
(***************************************************************************)
Null == [t |-> "null", v |-> 0]
JStr(s) == [t |-> "str", v |-> s]
JInt(i) == [t |-> "int", v |-> i]
JBool(b) == [t |-> "bool", v |-> b]

\* the string made of n copies of the character ch
Rep(ch, n) == [i \in 1..n |-> ch]

Has(d, k) == k \in DOMAIN d

\* a field of a payload, None when the payload omits it (Field(default=None))
Opt(d, k) == IF Has(d, k) THEN d[k] ELSE Null

\* the payload a client sends: the fields it chose to send, without the others
Absent == [t |-> "absent", v |-> 0]
Strip(r) == [k \in {f \in DOMAIN r : r[f] # Absent} |-> r[k]]

(***************************************************************************)
(* Field constraints                                                       *)
(***************************************************************************)
\* Field(..., min_length=lo, max_length=hi) on a str
StrOk(x, lo, hi) == x.t = "str" /\ Len(x.v) >= lo /\ Len(x.v) <= hi

\* Field(..., min_length=lo) on a str
StrMin(x, lo) == x.t = "str" /\ Len(x.v) >= lo

IndexOf(s, ch) == {i \in 1..Len(s) : s[i] = ch}

\* EmailStr: one "@", a non-empty local part, a domain with an inner dot
IsEmail(s) ==
    /\ Cardinality(IndexOf(s, "@")) = 1
    /\ LET at == CHOOSE i \in IndexOf(s, "@") : TRUE
       IN  /\ at > 1
           /\ \E i \in IndexOf(s, ".") : i > at + 1 /\ i < Len(s)
EmailOk(x) == x.t = "str" /\ IsEmail(x.v)

HttpPrefix == <<"h", "t", "t", "p", ":", "/", "/">>
HttpsPrefix == <<"h", "t", "t", "p", "s", ":", "/", "/">>
StartsWith(s, p) == Len(s) >= Len(p) /\ SubSeq(s, 1, Len(p)) = p

\* HttpUrl: scheme http or https followed by a non-empty host
IsHttpUrl(s) ==
    \/ StartsWith(s, HttpPrefix) /\ Len(s) > Len(HttpPrefix) /\ s[Len(HttpPrefix) + 1] # "s"
    \/ StartsWith(s, HttpsPrefix) /\ Len(s) > Len(HttpsPrefix)
UrlOk(x) == x.t = "str" /\ IsHttpUrl(x.v)

\* the values of the enumeration HairColor
HairColor ==
    {<<"w", "h", "i", "t", "e">>,
     <<"b", "r", "o", "w", "n">>,
     <<"b", "l", "a", "c", "k">>,
     <<"b", "l", "o", "n", "d", "e">>,
     <<"r", "e", "d">>}

(***************************************************************************)
(* Models                                                                  *)
(***************************************************************************)
LocationFields == {"city", "state", "country"}

\* mutant: max_length left out
LocationFieldOk_noMax(d, k) == Has(d, k) /\ StrMin(d[k], 1)

LocationFieldOk(d, k) == Has(d, k) /\ StrOk(d[k], 1, 50)

LocationErrors(d) == {k \in LocationFields : ~LocationFieldOk(d, k)}

\* the Location instance of a valid payload
Location(d) == [k \in LocationFields |-> d[k]]

PersonBaseFields ==
    {"first_name", "last_name", "age", "hair_color", "is_married", "email",
     "personal_site"}

\* mutant: ge=18 for gt=18
AgeOk_ge(x) == x.t = "int" /\ x.v >= 18 /\ x.v <= 115

AgeOk(x) == x.t = "int" /\ x.v > 18 /\ x.v <= 115

PersonBaseFieldOk(d, k) ==
    CASE k = "first_name" -> Has(d, k) /\ StrOk(d[k], 1, 50)
      [] k = "last_name" -> Has(d, k) /\ StrOk(d[k], 1, 50)
      [] k = "age" -> Has(d, k) /\ AgeOk(d[k])
      [] k = "hair_color" ->
            Opt(d, k) = Null \/ (Opt(d, k).t = "str" /\ Opt(d, k).v \in HairColor)
      [] k = "is_married" -> Opt(d, k) = Null \/ Opt(d, k).t = "bool"
      [] k = "email" -> Has(d, k) /\ EmailOk(d[k])
      [] k = "personal_site" -> Opt(d, k) = Null \/ UrlOk(Opt(d, k))

PersonFields == PersonBaseFields \cup {"password"}

PersonFieldOk(d, k) ==
    IF k = "password" THEN Has(d, k) /\ StrMin(d[k], 8)
    ELSE PersonBaseFieldOk(d, k)

PersonErrors(d) == {k \in PersonFields : ~PersonFieldOk(d, k)}

\* the Person instance of a valid payload: omitted optional fields are None
Person(d) == [k \in PersonFields |-> Opt(d, k)]

PersonOutFields == PersonBaseFields

\* mutant: the response is not shaped, the whole object goes out
PersonOut_unshaped(obj) == obj

\* response_model=PersonOut: the returned object's PersonOut fields
PersonOut(obj) == [k \in PersonOutFields |-> obj[k]]

\* LoginOut(username=...): the instance, or the ValidationError it raises
LoginOutOk(username) == Len(username) <= 20
LoginSuccesfully ==
    <<"L", "o", "g", "i", "n", " ", "S", "u", "c", "c", "e", "s", "f", "u", "l", "l", "y", "!">>
LoginOut(username) == [username |-> JStr(username), message |-> JStr(LoginSuccesfully)]

(***************************************************************************)
(* Path operation functions: what each returns for validated arguments     *)
(***************************************************************************)
HelloWorld == [Hello |-> JStr(<<"w", "o", "r", "l", "d">>)]

\* home(): {"Hello": "world"}
home_result == [status |-> 200, body |-> HelloWorld]

\* create_person(person): the person, shaped by response_model=PersonOut
create_person_result(person) == [status |-> 201, body |-> PersonOut(person)]

\* show_person(name, age): {name: age}
show_person_query_result(name, age) == [status |-> 200, body |-> {<<name, age>>}]

ItExists == JStr(<<"I", "t", " ", "e", "x", "i", "s", "t", "s", "!">>)
DoesntExist ==
    JStr(<<"T", "h", "i", "s", " ", "p", "e", "r", "s", "o", "n", " ", "d", "o", "e", "s", "n", "'", "t", " ", "e", "x", "i", "s", "t", "s", "!">>)

\* person_id not in persons
NotIn(x, list) == \A i \in 1..Len(list) : list[i] # x

\* show_person(person_id): HTTPException(404) or {person_id: "It exists!"}
show_person_result(person_id, list) ==
    IF NotIn(person_id, list)
    THEN [status |-> 404, body |-> [detail |-> DoesntExist]]
    ELSE [status |-> 200, body |-> {<<JInt(person_id), ItExists>>}]

\* mutant: the update is lost
dict_update_lost(a, b) == a

\* a.update(b) on dicts: b's entries added to a, b winning on a shared key
dict_update(a, b) ==
    [k \in DOMAIN a \cup DOMAIN b |-> IF k \in DOMAIN b THEN b[k] ELSE a[k]]

\* update_person(person_id, person, location): person.dict() updated with
\* location.dict()
update_person_result(person_id, person, location) ==
    [status |-> 200, body |-> dict_update(person, location)]

\* updat_location(person_id, location): the location
updat_location_result(person_id, location) == [status |-> 200, body |-> location]

\* login(username, password): LoginOut(username=username); the ValidationError
\* it raises for a username LoginOut does not admit is an unhandled exception
InternalServerError == [status |-> 500, body |-> "Internal Server Error"]
login_result(username, password) ==
    IF LoginOutOk(username)
    THEN [status |-> 200, body |-> LoginOut(username)]
    ELSE InternalServerError

\* mutant: the cookie is returned for the header
contact_result_ads(first_name, last_name, email, message, user_agent, ads) ==
    [status |-> 200, body |-> ads]

\* contact(...): user_agent
contact_result(first_name, last_name, email, message, user_agent, ads) ==
    [status |-> 200, body |-> user_agent]

\* mutant: truncation for rounding
RoundKb_floor(n) == (n * 100) \div 1024

\* round(x, ndigits=2) of x = n/1024, as a number of hundredths. n/1024 is an
\* exact float, so the result is the nearest hundredth, a tie going to the
\* even one.
RoundKb(n) ==
    LET q == (n * 100) \div 1024
        r == (n * 100) % 1024
    IN  IF r > 512 \/ (r = 512 /\ q % 2 = 1) THEN q + 1 ELSE q

\* a float with at most two decimals, held as its number of hundredths
JHundredths(h) == [t |-> "float", v |-> h]

\* post_image(image)
post_image_result(image) ==
    [status |-> 200,
     body |-> [Filename |-> image.filename,
               Format |-> image.content_type,
               Size_kb |-> JHundredths(RoundKb(image.size))]]

(***************************************************************************)
(* Requests and their validation against the declared parameters           *)
(*                                                                         *)
(* A request is a record: its endpoint and, as the endpoint declares them, *)
(* person_id (the path parameter), query, body (the JSON body), form,      *)
(* headers, cookies, files.  Errors(r) is the detail of the validation     *)
(* error: the locations of the parameters that are missing or invalid.     *)
(***************************************************************************)
\* mutant: ge=0 for gt=0
PathIdOk_ge(x) == x.t = "int" /\ x.v >= 0

\* Path(..., gt=0) on an int
PathIdOk(x) == x.t = "int" /\ x.v > 0
PathErrors(r) == IF PathIdOk(r.person_id) THEN {} ELSE {<<"path", "person_id">>}

\* Form(...): a field sent empty counts as not sent
FormHas(f, k) == Has(f, k) /\ f[k].v # <<>>

\* name: Optional[str] = Query(None, min_length=1, max_length=50)
QueryNameOk(q) == ~Has(q, "name") \/ StrOk(q.name, 1, 50)
\* mutant: the query age bounded like Person.age
QueryAgeOk_bounded(q) == Has(q, "age") /\ AgeOk(q.age)

\* age: int = Query(...)
QueryAgeOk(q) == Has(q, "age") /\ q.age.t = "int"

show_person_query_errors(r) ==
    {<<"query", k>> : k \in {f \in {"name"} : ~QueryNameOk(r.query)}
                            \cup {f \in {"age"} : ~QueryAgeOk(r.query)}}

create_person_errors(r) == {<<"body", k>> : k \in PersonErrors(r.body)}

\* two Body(...) parameters: the body holds each under its name
update_person_errors(r) ==
    PathErrors(r)
    \cup (IF Has(r.body, "person")
          THEN {<<"body", "person", k>> : k \in PersonErrors(r.body.person)}
          ELSE {<<"body", "person">>})
    \cup (IF Has(r.body, "location")
          THEN {<<"body", "location", k>> : k \in LocationErrors(r.body.location)}
          ELSE {<<"body", "location">>})

updat_location_errors(r) ==
    PathErrors(r) \cup {<<"body", k>> : k \in LocationErrors(r.body)}

login_errors(r) ==
    {<<"body", k>> : k \in {f \in {"username", "password"} : ~FormHas(r.form, f)}}

ContactFields == {"first_name", "last_name", "email", "message"}

ContactFieldOk(f, k) ==
    /\ FormHas(f, k)
    /\ CASE k = "first_name" -> StrOk(f[k], 1, 20)
         [] k = "last_name" -> StrOk(f[k], 1, 20)
         [] k = "email" -> EmailOk(f[k])
         [] k = "message" -> StrMin(f[k], 20)

contact_errors(r) == {<<"body", k>> : k \in {f \in ContactFields : ~ContactFieldOk(r.form, f)}}

\* image: UploadFile = File(...)
post_image_errors(r) == IF Has(r.files, "image") THEN {} ELSE {<<"body", "image">>}

Errors(r) ==
    CASE r.endpoint = "home" -> {}
      [] r.endpoint = "create_person" -> create_person_errors(r)
      [] r.endpoint = "show_person_query" -> show_person_query_errors(r)
      [] r.endpoint = "show_person" -> PathErrors(r)
      [] r.endpoint = "update_person" -> update_person_errors(r)
      [] r.endpoint = "updat_location" -> updat_location_errors(r)
      [] r.endpoint = "login" -> login_errors(r)
      [] r.endpoint = "contact" -> contact_errors(r)
      [] r.endpoint = "post_image" -> post_image_errors(r)

\* the response to a request that fails validation
UnprocessableEntity(r) == [status |-> 422, body |-> [detail |-> Errors(r)]]

(***************************************************************************)
(* The inputs tried                                                        *)
(***************************************************************************)
\* lengths around the limits 1 and max
Lens(max) == {0, 1} \cup (max..(max + Over))
Strings(ch, max) == {JStr(Rep(ch, n)) : n \in Lens(max)}

GoodEmail == JStr(<<"a", "@", "b", ".", "c">>)
BadEmails == {JStr(<<"a", "b", ".", "c">>), JStr(<<"a", "@", "b">>)}
GoodUrl == JStr(HttpsPrefix \o <<"a", ".", "c">>)
BadUrl == JStr(<<"a", ".", "c">>)
Brown == JStr(<<"b", "r", "o", "w", "n">>)
Green == JStr(<<"g", "r", "e", "e", "n">>)

\* ages around the limits 18 and 115
Ages == ((18 - Over)..(18 + Over)) \cup ((115 - Over)..(115 + Over))

PersonPayloads ==
    {Strip(r) : r \in
        [first_name : {Absent} \cup Strings("f", 50),
         last_name : {Absent, JStr(Rep("l", 1)), JStr(Rep("l", 50 + Over))},
         age : {Absent, JStr(<<"x">>)} \cup {JInt(a) : a \in Ages},
         hair_color : {Absent, Null, Brown, Green},
         is_married : {Absent, JBool(TRUE), JStr(<<"x">>)},
         email : {Absent, GoodEmail} \cup BadEmails,
         personal_site : {Absent, GoodUrl, BadUrl},
         password : {Absent, JStr(Rep("p", 7)), JStr(Rep("p", 8))}]}

\* a few person payloads, for the requests that carry more than a person
PersonSamples ==
    {Strip(r) : r \in
        [first_name : {JStr(Rep("f", 50)), JStr(Rep("f", 50 + Over))},
         last_name : {JStr(Rep("l", 1))},
         age : {JInt(18), JInt(18 + Over)},
         hair_color : {Absent, Brown},
         is_married : {Absent, JBool(FALSE)},
         email : {GoodEmail, JStr(<<"a", "b", ".", "c">>)},
         personal_site : {Absent},
         password : {Absent, JStr(Rep("p", 8))}]}

LocationPayloads ==
    {Strip(r) : r \in
        [city : {Absent} \cup Strings("c", 50),
         state : {Absent, JStr(Rep("s", 1))},
         country : {JStr(Rep("m", 1)), JStr(Rep("m", 50 + Over))}]}

PathIds == {JStr(<<"x">>), JInt(99)} \cup {JInt(i) : i \in (0 - Over)..MaxId}

CreateRequests(payloads) ==
    {[endpoint |-> "create_person", body |-> d] : d \in payloads}

QueryRequests ==
    {[endpoint |-> "show_person_query", query |-> Strip(q)] : q \in
        [name : {Absent} \cup Strings("n", 50) \cup Strings("o", 50),
         age : {Absent, JStr(<<"x">>), JInt(-1), JInt(0), JInt(30)}
               \cup {JInt(a) : a \in Ages}]}

DetailRequests == {[endpoint |-> "show_person", person_id |-> i] : i \in PathIds}

UpdateRequests ==
    {[endpoint |-> "update_person", person_id |-> i, body |-> Strip(b)] :
        i \in {JInt(0), JInt(3), JInt(321)},
        b \in [person : {Absent} \cup PersonSamples,
               location : {Absent} \cup LocationPayloads]}

LocationRequests ==
    {[endpoint |-> "updat_location", person_id |-> i, body |-> d] :
        i \in {JInt(0), JInt(333)}, d \in LocationPayloads}

LoginRequests ==
    {[endpoint |-> "login", form |-> Strip(f)] : f \in
        [username : {Absent} \cup {JStr(Rep(ch, n)) : ch \in {"u", "w"}, n \in 0..(20 + Over)},
         password : {Absent, JStr(<<>>), JStr(Rep("p", 1)), JStr(Rep("p", 8))}]}

Message(n) == JStr(Rep("m", n))
UserAgents == {JStr(<<"c", "u", "r", "l">>), JStr(<<"m", "o", "z">>)}

ContactRequests ==
    {[endpoint |-> "contact", form |-> Strip(f), headers |-> Strip(h), cookies |-> Strip(k)] :
        f \in [first_name : {Absent} \cup Strings("f", 20),
               last_name : {Absent, JStr(Rep("l", 1)), JStr(Rep("l", 20 + Over))},
               email : {Absent, GoodEmail} \cup BadEmails,
               message : {Absent} \cup {Message(n) : n \in (20 - Over)..(20 + Over)}],
        h \in [user_agent : {Absent} \cup UserAgents],
        k \in [ads : {Absent, JStr(<<"y">>)}]}

\* sizes in bytes: the small ones and those around 1 kb and 2 kb
Sizes == (0..MaxBytes) \cup ((1024 - Over)..(1024 + Over)) \cup ((2048 - Over)..(2048 + Over))

Images ==
    [filename : {JStr(<<"a", ".", "p", "n", "g">>), JStr(<<"b">>)},
     content_type : {JStr(<<"i", "m", "a", "g", "e", "/", "p", "n", "g">>), JStr(<<"t", "e", "x", "t">>)},
     size : Sizes]

UploadRequests ==
    {[endpoint |-> "post_image", files |-> Strip(f)] : f \in [image : {Absent} \cup Images]}

HomeRequests == {[endpoint |-> "home"]}

\* the person of the docs' example, and the same one too young
ExamplePerson ==
    [first_name |-> JStr(<<"A", "z", "k", "u", "r">>),
     last_name |-> JStr(<<"D", "e", "v">>),
     age |-> JInt(38),
     hair_color |-> Brown,
     is_married |-> JBool(TRUE),
     email |-> GoodEmail,
     personal_site |-> GoodUrl,
     password |-> JStr(Rep("p", 8))]
ExampleLocation ==
    [city |-> JStr(<<"C">>), state |-> JStr(<<"S">>), country |-> JStr(<<"M">>)]

\* one request that passes and one that fails per endpoint, and every path id
SampleRequests ==
    HomeRequests
    \cup CreateRequests({ExamplePerson, [ExamplePerson EXCEPT !.age = JInt(18)]})
    \cup {[endpoint |-> "show_person_query", query |-> q] :
            q \in {[age |-> JInt(30)], [name |-> JStr(<<"n">>)]}}
    \cup DetailRequests
    \cup {[endpoint |-> "update_person", person_id |-> JInt(321), body |-> b] :
            b \in {[person |-> ExamplePerson, location |-> ExampleLocation],
                   [person |-> ExamplePerson]}}
    \cup {[endpoint |-> "updat_location", person_id |-> i, body |-> ExampleLocation] :
            i \in {JInt(0), JInt(333)}}
    \cup {[endpoint |-> "login", form |-> [username |-> JStr(Rep("u", n)), password |-> JStr(<<"p">>)]] :
            n \in {0, 1, 20 + Over}}
    \cup {[endpoint |-> "contact",
           form |-> [first_name |-> JStr(<<"f">>), last_name |-> JStr(<<"l">>),
                     email |-> GoodEmail, message |-> Message(n)],
           headers |-> [user_agent |-> JStr(<<"c", "u", "r", "l">>)],
           cookies |-> <<>>] : n \in {20 - Over, 20}}
    \cup {[endpoint |-> "post_image", files |-> f] :
            f \in {<<>>, [image |-> [filename |-> JStr(<<"b">>),
                                     content_type |-> JStr(<<"t", "e", "x", "t">>),
                                     size |-> 2048]]}}

(***************************************************************************)
(* The server                                                              *)
(*                                                                         *)
(* persons is the module-level list.  Each client c has one request at a   *)
(* time: pc[c] is "idle", "received" (the request is in, not yet           *)
(* validated), "validated" (its path operation function is about to run)   *)
(* or "done" (resp[c] is its response); ran[c] tells whether the path      *)
(* operation function ran for it.                                          *)
(***************************************************************************)
NoRequest == [endpoint |-> "none"]
NoResponse == [status |-> 0, body |-> "none"]

Init ==
    /\ persons = <<1, 2, 3, 4, 5>>
    /\ pc = [c \in Clients |-> "idle"]
    /\ req = [c \in Clients |-> NoRequest]
    /\ resp = [c \in Clients |-> NoResponse]
    /\ ran = [c \in Clients |-> FALSE]

\* a request of the set R arrives
Request(c, R) ==
    /\ pc[c] = "idle"
    /\ \E r \in R : req' = [req EXCEPT ![c] = r]
    /\ pc' = [pc EXCEPT ![c] = "received"]
    /\ UNCHANGED <<persons, resp, ran>>

\* the framework validates the declared parameters before it calls the function
Validate(c) ==
    /\ pc[c] = "received"
    /\ IF Errors(req[c]) = {}
       THEN /\ pc' = [pc EXCEPT ![c] = "validated"]
            /\ UNCHANGED resp
       ELSE /\ pc' = [pc EXCEPT ![c] = "done"]
            /\ resp' = [resp EXCEPT ![c] = UnprocessableEntity(req[c])]
    /\ UNCHANGED <<persons, req, ran>>

\* the path operation function of endpoint e runs and returns result
Run(c, e, result) ==
    /\ pc[c] = "validated"
    /\ req[c].endpoint = e
    /\ resp' = [resp EXCEPT ![c] = result]
    /\ ran' = [ran EXCEPT ![c] = TRUE]
    /\ pc' = [pc EXCEPT ![c] = "done"]
    /\ UNCHANGED <<persons, req>>

home(c) == Run(c, "home", home_result)

\* mutant: the created person is stored, its id added to the list
create_person_saving(c) ==
    /\ pc[c] = "validated"
    /\ req[c].endpoint = "create_person"
    /\ persons' = Append(persons, Len(persons) + 1)
    /\ resp' = [resp EXCEPT ![c] = create_person_result(Person(req[c].body))]
    /\ ran' = [ran EXCEPT ![c] = TRUE]
    /\ pc' = [pc EXCEPT ![c] = "done"]
    /\ UNCHANGED req

create_person(c) == Run(c, "create_person", create_person_result(Person(req[c].body)))

show_person_query(c) ==
    Run(c, "show_person_query",
        show_person_query_result(Opt(req[c].query, "name"), req[c].query.age))

show_person(c) == Run(c, "show_person", show_person_result(req[c].person_id.v, persons))

update_person(c) ==
    Run(c, "update_person",
        update_person_result(req[c].person_id.v, Person(req[c].body.person),
                             Location(req[c].body.location)))

updat_location(c) ==
    Run(c, "updat_location",
        updat_location_result(req[c].person_id.v, Location(req[c].body)))

login(c) ==
    Run(c, "login", login_result(req[c].form.username.v, req[c].form.password.v))

contact(c) ==
    Run(c, "contact",
        contact_result(req[c].form.first_name, req[c].form.last_name,
                       req[c].form.email, req[c].form.message,
                       Opt(req[c].headers, "user_agent"), Opt(req[c].cookies, "ads")))

post_image(c) == Run(c, "post_image", post_image_result(req[c].files.image))

\* the response is sent; the client may send its next request
Complete(c) ==
    /\ pc[c] = "done"
    /\ pc' = [pc EXCEPT ![c] = "idle"]
    /\ req' = [req EXCEPT ![c] = NoRequest]
    /\ resp' = [resp EXCEPT ![c] = NoResponse]
    /\ ran' = [ran EXCEPT ![c] = FALSE]
    /\ UNCHANGED persons

\* the whole API, serving NumClients requests at a time
Next ==
    \E c \in Clients :
        \/ Request(c, SampleRequests)
        \/ Validate(c)
        \/ home(c)
        \/ create_person(c)
        \/ show_person_query(c)
        \/ show_person(c)
        \/ update_person(c)
        \/ updat_location(c)
        \/ login(c)
        \/ contact(c)
        \/ post_image(c)
        \/ Complete(c)

Spec == Init /\ [][Next]_vars

\* POST /person/new alone, over every combination of field values
NextPerson ==
    \/ Request(1, CreateRequests(PersonPayloads))
    \/ Validate(1)
    \/ create_person(1)
    \/ Complete(1)

SpecPerson == Init /\ [][NextPerson]_vars

\* the endpoints that take a validated body or path id
NextValidated ==
    \/ Request(1, CreateRequests(PersonSamples) \cup UpdateRequests
                  \cup LocationRequests \cup DetailRequests \cup ContactRequests)
    \/ Validate(1)
    \/ create_person(1)
    \/ update_person(1)
    \/ updat_location(1)
    \/ show_person(1)
    \/ contact(1)
    \/ Complete(1)

SpecValidated == Init /\ [][NextValidated]_vars

\* the endpoints that take query parameters, form fields and files
NextEcho ==
    \/ Request(1, QueryRequests \cup LoginRequests \cup ContactRequests \cup UploadRequests)
    \/ Validate(1)
    \/ show_person_query(1)
    \/ login(1)
    \/ contact(1)
    \/ post_image(1)
    \/ Complete(1)

SpecEcho == Init /\ [][NextEcho]_vars

(***************************************************************************)
(* Properties                                                              *)
(***************************************************************************)
Done(c, e) == pc[c] = "done" /\ req[c].endpoint = e

\* C1: login with any username and any password, both sent, answers 200 with
\* that username and the message "Login Succesfully!", also for a username
\* of more than 20 characters.
C1_LoginEchoesAnyUsername ==
    \A c \in Clients :
        (/\ Done(c, "login")
         /\ Has(req[c].form, "username") /\ Len(req[c].form.username.v) >= 1
         /\ Has(req[c].form, "password") /\ Len(req[c].form.password.v) >= 1)
        => /\ resp[c].status = 200
           /\ resp[c].body = [username |-> req[c].form.username,
                              message |-> JStr(LoginSuccesfully)]

C3_ShowPersonById ==
    \A c \in Clients :
        (Done(c, "show_person") /\ req[c].person_id.t = "int")
        => LET id == req[c].person_id.v
           IN  /\ (id > 0 /\ id \in {1, 2, 3, 4, 5})
                    => /\ resp[c].status = 200
                       /\ resp[c].body = {<<JInt(id), ItExists>>}
               /\ (id > 0 /\ id \notin {1, 2, 3, 4, 5})
                    => /\ resp[c].status = 404
                       /\ resp[c].body.detail = DoesntExist
               /\ id <= 0 => (resp[c].status = 422 /\ ~ran[c])
               /\ id = 3 => resp[c].status = 200
               /\ id = 99 => resp[c].status = 404

C3_Witness ==
    \E c \in Clients :
        /\ Done(c, "show_person")
        /\ req[c].person_id = JInt(99)
        /\ resp[c].status = 404
        /\ ran[c]

\* C4: a person payload whose other fields are valid is accepted if and only
\* if its integer age satisfies 18 < age <= 115: 18 and 116 are rejected, 19
\* and 115 accepted.
C4_AgeBounds ==
    \A c \in Clients :
        (/\ Done(c, "create_person")
         /\ Has(req[c].body, "age") /\ req[c].body.age.t = "int"
         /\ PersonErrors(req[c].body) \subseteq {"age"})
        => LET age == req[c].body.age.v
           IN  /\ resp[c].status = 201 <=> (18 < age /\ age <= 115)
               /\ resp[c].status \in {201, 422}
               /\ age \in {18, 116} => resp[c].status = 422
               /\ age \in {19, 115} => resp[c].status = 201

C4_Witness ==
    \E c \in Clients :
        /\ Done(c, "create_person")
        /\ Has(req[c].body, "age") /\ req[c].body.age = JInt(115)
        /\ resp[c].status = 201

\* what the specification's data model asks of each input
C5_Text(d, k, lo, hi) ==
    Has(d, k) /\ d[k].t = "str" /\ Len(d[k].v) >= lo /\ Len(d[k].v) <= hi
C5_Optional(d, k, ok) == ~Has(d, k) \/ d[k] = Null \/ ok
C5_LocationValid(d) == \A k \in {"city", "state", "country"} : C5_Text(d, k, 1, 50)
C5_PersonValid(d) ==
    /\ C5_Text(d, "first_name", 1, 50)
    /\ C5_Text(d, "last_name", 1, 50)
    /\ Has(d, "age") /\ d.age.t = "int" /\ d.age.v \in 19..115
    /\ C5_Optional(d, "hair_color",
                   Has(d, "hair_color") /\ d.hair_color.t = "str"
                   /\ d.hair_color.v \in HairColor)
    /\ C5_Optional(d, "is_married", Has(d, "is_married") /\ d.is_married.t = "bool")
    /\ Has(d, "email") /\ d.email.t = "str" /\ IsEmail(d.email.v)
    /\ C5_Optional(d, "personal_site",
                   Has(d, "personal_site") /\ d.personal_site.t = "str"
                   /\ IsHttpUrl(d.personal_site.v))
    /\ Has(d, "password") /\ d.password.t = "str" /\ Len(d.password.v) >= 8
C5_IdValid(x) == x.t = "int" /\ x.v >= 1
C5_ContactValid(f) ==
    /\ C5_Text(f, "first_name", 1, 20)
    /\ C5_Text(f, "last_name", 1, 20)
    /\ Has(f, "email") /\ IsEmail(f.email.v)
    /\ Has(f, "message") /\ Len(f.message.v) >= 20
C5_Endpoints ==
    {"create_person", "update_person", "updat_location", "show_person", "contact"}
C5_RequestValid(r) ==
    CASE r.endpoint = "create_person" -> C5_PersonValid(r.body)
      [] r.endpoint = "update_person" ->
            /\ C5_IdValid(r.person_id)
            /\ Has(r.body, "person") /\ C5_PersonValid(r.body.person)
            /\ Has(r.body, "location") /\ C5_LocationValid(r.body.location)
      [] r.endpoint = "updat_location" -> C5_IdValid(r.person_id) /\ C5_LocationValid(r.body)
      [] r.endpoint = "show_person" -> C5_IdValid(r.person_id)
      [] r.endpoint = "contact" -> C5_ContactValid(r.form)

\* C5: on the endpoints with validated input, the function never runs for a
\* request with a required field missing or a field breaking its constraint:
\* such a request ends with the validation error, naming the fields, and a
\* request that passes validation gets its function run.
C5_ValidationBeforeHandler ==
    \A c \in Clients :
        req[c].endpoint \in C5_Endpoints
        => /\ ran[c] => C5_RequestValid(req[c])
           /\ pc[c] = "validated" => C5_RequestValid(req[c])
           /\ pc[c] = "done" =>
                IF C5_RequestValid(req[c])
                THEN ran[c] /\ resp[c].status # 422
                ELSE /\ ~ran[c]
                     /\ resp[c].status = 422
                     /\ resp[c].body.detail # {}
                     /\ resp[c].body.detail = Errors(req[c])

C5_Witness ==
    \E c \in Clients :
        /\ Done(c, "update_person")
        /\ ~ran[c]
        /\ resp[c].status = 422
        /\ resp[c].body.detail = {<<"body", "location", "country">>}

C8_ImageSize ==
    \A c \in Clients :
        (Done(c, "post_image") /\ Has(req[c].files, "image"))
        => LET image == req[c].files.image
               h == resp[c].body.Size_kb.v
               diff == 1024 * h - 100 * image.size
           IN  /\ resp[c].status = 200
               /\ resp[c].body.Filename = image.filename
               /\ resp[c].body.Format = image.content_type
               /\ diff <= 512 /\ 0 - diff <= 512
               /\ image.size = 2048 => h = 200
               /\ image.size = 0 => h = 0

C8_Witness ==
    \E c \in Clients :
        /\ Done(c, "post_image")
        /\ ran[c]
        /\ req[c].files.image.size = 2048
        /\ resp[c].body.Size_kb = JHundredths(200)

\* C9: POST /contact is accepted only with first_name and last_name of 1 to 20
\* characters, a well-formed email and a message of at least 20 characters;
\* an accepted request answers the user-agent header, null without one,
\* whatever the form fields and whether or not the ads cookie is sent.
C9_ContactReturnsUserAgent ==
    \A c \in Clients :
        Done(c, "contact")
        => /\ ran[c] <=> C5_ContactValid(req[c].form)
           /\ ran[c] =>
                /\ resp[c].status = 200
                /\ resp[c].body = IF Has(req[c].headers, "user_agent")
                                  THEN req[c].headers.user_agent ELSE Null

C9_Witness ==
    \E c \in Clients :
        /\ Done(c, "contact")
        /\ ran[c]
        /\ Has(req[c].cookies, "ads")
        /\ ~Has(req[c].headers, "user_agent")
        /\ resp[c].body = Null

\* C10: GET /person/detail with an integer age of any value, and a name that
\* is absent or 1 to 50 characters long, answers the one-entry mapping from
\* the name (null when absent) to the age; without age it is rejected.
C10_ShowPersonByQuery ==
    \A c \in Clients :
        Done(c, "show_person_query")
        => LET q == req[c].query
           IN  /\ (/\ Has(q, "age") /\ q.age.t = "int"
                   /\ (Has(q, "name") => Len(q.name.v) \in 1..50))
                  => /\ resp[c].status = 200
                     /\ resp[c].body = {<<IF Has(q, "name") THEN q.name ELSE Null, q.age>>}
               /\ ~Has(q, "age") => (resp[c].status = 422 /\ ~ran[c])

C10_Witness ==
    \E c \in Clients :
        /\ Done(c, "show_person_query")
        /\ ~Has(req[c].query, "name")
        /\ Has(req[c].query, "age") /\ req[c].query.age = JInt(18)
        /\ resp[c].status = 200
        /\ resp[c].body = {<<Null, JInt(18)>>}
====
